---- MODULE Spec2Model ----
(***************************************************************************)
(* Model of packages/keystone-nextjs-auth/src/index.ts: createAuth and     *)
(* the config it composes with withAuth (page middleware, access check,    *)
(* session strategy wrapper, public pages, schema extension).              *)
(*                                                                         *)
(* Strings are finite sequences over a small alphabet of character         *)
(* chunks.  The chunks are chosen so that a chunk-level substring test     *)
(* and a chunk-level equality coincide with the character-level ones (no   *)
(* chunk is a prefix of another, and no pattern the code searches for can  *)
(* match across a chunk boundary).                                         *)
(***************************************************************************)
EXTENDS Integers, Sequences, FiniteSets, TLC

VARIABLES keystonePath, listKey, identityField, sessionData, config, last

vars == <<keystonePath, listKey, identityField, sessionData, config, last>>

(***************************************************************************)
(* Bounds                                                                  *)
(***************************************************************************)
MaxUrlLen == 5
MaxCount == 2
MaxHops == 2
MaxPublicPages == 2

(***************************************************************************)
(* Strings, urls                                                           *)
(***************************************************************************)
None == <<>>
Some(x) == <<x>>

Alphabet == {"/", "api/auth", "signin", "/admin", "?q"}

Str(n) == UNION {[1..k -> Alphabet] : k \in 0..n}

\* req.url of an incoming request: never empty, starts with a slash
Urls == {u \in Str(MaxUrlLen) : Len(u) > 0 /\ u[1] \in {"/", "/admin"}}

KeystonePaths == {<<>>, <<"/admin">>}

\* String.prototype.includes
includes(s, sub) ==
  \E i \in 0..(Len(s) - Len(sub)) : SubSeq(s, i + 1, i + Len(sub)) = sub

\* String.prototype.startsWith (used by the claims only)
startsWith(s, pre) ==
  Len(s) >= Len(pre) /\ SubSeq(s, 1, Len(pre)) = pre

\* position of the first query chunk, or Len(u) + 1
FirstQuery(u) ==
  IF \E i \in 1..Len(u) : u[i] = "?q"
    THEN CHOOSE i \in 1..Len(u) : u[i] = "?q" /\ \A j \in 1..(i - 1) : u[j] # "?q"
    ELSE Len(u) + 1

\* url.parse(u).pathname: the part before the query; null when it is empty
urlParsePathname(u) ==
  LET p == SubSeq(u, 1, FirstQuery(u) - 1)
  IN  [isNull |-> (p = <<>>), str |-> p]

(***************************************************************************)
(* pageMiddleware                                                          *)
(***************************************************************************)
Continue == [kind |-> "undefined", to |-> <<>>]
Redirect(t) == [kind |-> "redirect", to |-> t]
Throw == [kind |-> "throw", to |-> <<>>]

authApiPrefix(kp) == kp \o <<"/", "api/auth", "/">>
signinPage(kp) == kp \o <<"/", "api/auth", "/", "signin">>

Sessions == {"undefined", "item"}

\* a valid-session visit to any auth route is sent to the root
pageMiddleware_anyAuthRoute(kp, url, isValidSession, session) ==
  LET pathname == urlParsePathname(url)
  IN  IF isValidSession
        THEN IF ~pathname.isNull /\ includes(pathname.str, authApiPrefix(kp))
               THEN Redirect(kp)
               ELSE Continue
        ELSE IF session = "undefined"
               THEN IF pathname.isNull
                      THEN Throw
                      ELSE IF ~includes(pathname.str, authApiPrefix(kp))
                             THEN Redirect(signinPage(kp))
                             ELSE Continue
               ELSE Continue

\* the sign-in redirect ignores the session object
pageMiddleware_ignoreSession(kp, url, isValidSession, session) ==
  LET pathname == urlParsePathname(url)
  IN  IF isValidSession
        THEN IF ~pathname.isNull /\ pathname.str = signinPage(kp)
               THEN Redirect(kp)
               ELSE Continue
        ELSE IF pathname.isNull
               THEN Throw
               ELSE IF ~includes(pathname.str, authApiPrefix(kp))
                      THEN Redirect(signinPage(kp))
                      ELSE Continue

\* the sign-in redirect exempts only the bare mount path
pageMiddleware_loop(kp, url, isValidSession, session) ==
  LET pathname == urlParsePathname(url)
  IN  IF isValidSession
        THEN IF ~pathname.isNull /\ pathname.str = signinPage(kp)
               THEN Redirect(kp)
               ELSE Continue
        ELSE IF session = "undefined"
               THEN IF pathname.isNull
                      THEN Throw
                      ELSE IF pathname.str # kp \o <<"/", "api/auth", "/">>
                             THEN Redirect(signinPage(kp))
                             ELSE Continue
               ELSE Continue

pageMiddleware(kp, url, isValidSession, session) ==
  LET pathname == urlParsePathname(url)
  IN  IF isValidSession
        THEN IF ~pathname.isNull /\ pathname.str = signinPage(kp)
               THEN Redirect(kp)
               ELSE Continue
        ELSE IF session = "undefined"
               THEN IF pathname.isNull
                      THEN Throw   \* null.includes: TypeError
                      ELSE IF ~includes(pathname.str, authApiPrefix(kp))
                             THEN Redirect(signinPage(kp))
                             ELSE Continue
               ELSE Continue

(***************************************************************************)
(* The caller's keystone config (the argument of withAuth)                 *)
(***************************************************************************)
ListsOptions ==
  { [k \in {"User"} |-> {"email", "name"}],
    [k \in {"User"} |-> {"name"}],
    [k \in {"Post"} |-> {"title"}] }

CallerPages == {<<"/", "about">>, <<"/", "docs">>}

CallerPublicPages ==
  UNION {[1..k -> CallerPages] : k \in 0..MaxPublicPages}

UiConfigs ==
  [ publicPages : {None} \cup {Some(p) : p \in CallerPublicPages},
    getAdditionalFiles : {None, Some(<<"callerFiles">>)},
    pageMiddleware : {"undefined", "caller"},
    isAccessAllowed : {"undefined", "caller"},
    enableSessionItem : {"undefined", "true", "false"} ]

KeystoneConfigs ==
  [ lists : ListsOptions,
    ui : {None} \cup {Some(u) : u \in UiConfigs},
    session : {"undefined", "callerStrategy"},
    extendGraphqlSchema : {"undefined", "caller"} ]

\* the configs the request handlers are exercised under
ServeConfigs ==
  { kc \in KeystoneConfigs :
      /\ kc.lists = [k \in {"User"} |-> {"email", "name"}]
      /\ \/ kc.ui = None /\ kc.session = "undefined"
            /\ kc.extendGraphqlSchema = "undefined"
         \/ /\ kc.ui # None
            /\ kc.ui[1].publicPages = None
            /\ kc.ui[1].getAdditionalFiles = None
            /\ kc.ui[1].enableSessionItem = "undefined"
            /\ kc.ui[1].pageMiddleware = kc.ui[1].isAccessAllowed
            /\ kc.session = "callerStrategy"
            /\ (kc.extendGraphqlSchema = "caller") =
                 (kc.ui[1].pageMiddleware = "caller") }

\* JavaScript truthiness of the sessionData string
Truthy(s) == s \notin {"undefined", ""}

(***************************************************************************)
(* createAuth: publicPages, validateConfig, withItemData, withAuth         *)
(***************************************************************************)
publicPages(kp) ==
  << authApiPrefix(kp) \o <<"csrf">>,
     authApiPrefix(kp) \o <<"signin">>,
     authApiPrefix(kp) \o <<"signin", "/", "auth0">>,
     authApiPrefix(kp) \o <<"callack">>,
     authApiPrefix(kp) \o <<"callback", "/", "auth0">>,
     authApiPrefix(kp) \o <<"session">>,
     authApiPrefix(kp) \o <<"providers">>,
     authApiPrefix(kp) \o <<"signout">> >>

\* the identityField lookup is skipped
validateConfig_noFieldCheck(kc, lk, idf) ==
  IF lk \notin DOMAIN kc.lists THEN "list" ELSE "ok"

\* "ok", or which of the two errors is thrown
validateConfig(kc, lk, idf) ==
  IF lk \notin DOMAIN kc.lists
    THEN "list"
    ELSE IF idf \notin kc.lists[lk] THEN "field" ELSE "ok"

\* the wrapper keeps everything of the strategy but get
withItemData(sessionStrategy) == "withItemData"

\* withAuth, the session part
withAuthSession(kc, sd) ==
  IF kc.session # "undefined" /\ Truthy(sd)
    THEN withItemData(kc.session)
    ELSE kc.session

\* withAuth, the ui part
withAuthUi(kc, kp) ==
  IF kc.ui # None
    THEN Some([ publicPages |->
                  Some((IF kc.ui[1].publicPages = None
                          THEN <<>> ELSE kc.ui[1].publicPages[1])
                       \o publicPages(kp)),
                getAdditionalFiles |->
                  Some((IF kc.ui[1].getAdditionalFiles = None
                          THEN <<>> ELSE kc.ui[1].getAdditionalFiles[1])
                       \o <<"getAdditionalFiles">>),
                pageMiddleware |-> "composed",
                enableSessionItem |-> "true",
                isAccessAllowed |-> "composed" ])
    ELSE kc.ui

withAuth(kc, kp, lk, idf, sd) ==
  LET v == validateConfig(kc, lk, idf)
  IN  IF v # "ok"
        THEN [status |-> "throw", error |-> v, input |-> kc]
        ELSE [ status |-> "ok",
               input |-> kc,
               ui |-> withAuthUi(kc, kp),
               session |-> withAuthSession(kc, sd),
               lists |-> kc.lists,
               extendGraphqlSchema |->
                 IF kc.extendGraphqlSchema # "undefined"
                   THEN "composed" ELSE "auth" ]

(***************************************************************************)
(* The functions of the composed config                                    *)
(***************************************************************************)
\* what the caller's own pageMiddleware may return
CallerResults == {Continue, Redirect(<<"/", "about">>)}

\* the caller's middleware is asked first
composedPageMiddleware_callerFirst(kc, kp, url, isValidSession, session, callerResult) ==
  LET own == pageMiddleware(kp, url, isValidSession, session)
      hasCaller == kc.ui[1].pageMiddleware # "undefined"
  IN  IF hasCaller /\ callerResult.kind # "undefined"
        THEN [result |-> callerResult, own |-> own, callerInvoked |-> TRUE]
        ELSE [result |-> own, own |-> own, callerInvoked |-> hasCaller]

\* ui.pageMiddleware: (await pageMiddleware(args)) ?? caller?.(args)
composedPageMiddleware(kc, kp, url, isValidSession, session, callerResult) ==
  LET own == pageMiddleware(kp, url, isValidSession, session)
  IN  IF own.kind # "undefined"
        THEN [result |-> own, own |-> own, callerInvoked |-> FALSE]
        ELSE IF kc.ui[1].pageMiddleware # "undefined"
               THEN [result |-> callerResult, own |-> own, callerInvoked |-> TRUE]
               ELSE [result |-> Continue, own |-> own, callerInvoked |-> FALSE]

\* header values and referers; a host is <<name, port>>, "" for no port
HostNames == {"a", "b"}
Ports == {"", "80", "3000"}
HostUndefined == <<"undefined">>
HostEmpty == <<"">>
HostNull == <<"null">>
HostHeaders == {HostUndefined} \cup (HostNames \X {"", "3000"}) \cup {<<"a", "80">>}
ForwardedHosts == {HostUndefined, HostEmpty, <<"a", "">>, <<"b", "">>}
RefererPaths == {"/init", "/", "/admin/init"}
Referers ==
  [valid : {TRUE}, hostname : HostNames, port : Ports, pathname : RefererPaths]
    \cup {[valid |-> FALSE, hostname |-> "", port |-> "", pathname |-> "/init"]}
Headers ==
  [xForwardedHost : ForwardedHosts, host : HostHeaders,
   referer : {None} \cup {Some(r) : r \in Referers}]
Contexts ==
  [ headers : {None} \cup {Some(h) : h \in Headers},
    count : 0..MaxCount,
    callerAnswer : BOOLEAN,
    session : Sessions ]

\* new URL(referer) of an http referer: host drops the default port
newURL(ref) ==
  [ host |-> <<ref.hostname, IF ref.port = "80" THEN "" ELSE ref.port>>,
    pathname |-> ref.pathname ]

\* headers['x-forwarded-host'] || headers.host, null without headers
requestHost(ctx) ==
  IF ctx.headers = None
    THEN HostNull
    ELSE IF ctx.headers[1].xForwardedHost \notin {HostUndefined, HostEmpty}
           THEN ctx.headers[1].xForwardedHost
           ELSE ctx.headers[1].host

hasReferer(ctx) == ctx.headers # None /\ ctx.headers[1].referer # None

\* the fall-back of isAccessAllowed: the caller's predicate, else the session
accessFallback(kc, ctx) ==
  IF kc.ui[1].isAccessAllowed # "undefined"
    THEN ctx.callerAnswer
    ELSE ctx.session # "undefined"

\* the host comparison is dropped
isAccessAllowed_noHostCheck(kc, ctx) ==
  IF hasReferer(ctx) /\ ~ctx.headers[1].referer[1].valid
    THEN [kind |-> "throw", accessingInitPage |-> FALSE, countQueried |-> FALSE]
    ELSE
      LET pathOk == hasReferer(ctx)
                      /\ newURL(ctx.headers[1].referer[1]).pathname = "/init"
          accessingInitPage == pathOk /\ ctx.count = 0
      IN  [ kind |-> IF accessingInitPage \/ accessFallback(kc, ctx)
                       THEN "allowed" ELSE "denied",
            accessingInitPage |-> accessingInitPage,
            countQueried |-> pathOk ]

\* ui.isAccessAllowed
isAccessAllowed(kc, ctx) ==
  IF hasReferer(ctx) /\ ~ctx.headers[1].referer[1].valid
    THEN \* new URL throws
         [kind |-> "throw", accessingInitPage |-> FALSE, countQueried |-> FALSE]
    ELSE
      LET pathAndHost ==
            /\ hasReferer(ctx)
            /\ newURL(ctx.headers[1].referer[1]).pathname = "/init"
            /\ newURL(ctx.headers[1].referer[1]).host = requestHost(ctx)
          accessingInitPage == pathAndHost /\ ctx.count = 0
      IN  [ kind |-> IF accessingInitPage \/ accessFallback(kc, ctx)
                       THEN "allowed" ELSE "denied",
            accessingInitPage |-> accessingInitPage,
            countQueried |-> pathAndHost ]

\* what getSession of the identity provider may resolve to
NextSessions == {"null", "nextSession"}

\* the auth-route test is dropped
withItemDataGet_noRouteCheck(url, nextSession) ==
  [ result |-> IF nextSession # "null" THEN nextSession ELSE "undefined",
    consulted |-> TRUE ]

\* session.get of the wrapped strategy
withItemDataGet(url, nextSession) ==
  LET pathname == urlParsePathname(url)
  IN  IF pathname.isNull
        THEN [result |-> "throw", consulted |-> FALSE]
        ELSE IF includes(pathname.str, <<"/", "api/auth">>)
               THEN [result |-> "undefined", consulted |-> FALSE]
               ELSE [ result |-> IF nextSession # "null"
                                   THEN nextSession ELSE "undefined",
                      consulted |-> TRUE ]

\* a schema is the sequence of its additions; each records what it could see
SchemaNames(schema) == {schema[i].name : i \in 1..Len(schema)}
Schemas == {<<>>, <<[name |-> "Query", saw |-> {}]>>}

\* the extension getSchemaExtension returns
extendGraphqlSchema(schema) ==
  Append(schema, [name |-> "auth", saw |-> SchemaNames(schema)])

\* the caller's extension
existingExtendGraphQLSchema(schema) ==
  Append(schema, [name |-> "caller", saw |-> SchemaNames(schema)])

\* the caller's extension runs first
composedExtendGraphqlSchema_callerFirst(kc, schema) ==
  IF kc.extendGraphqlSchema # "undefined"
    THEN extendGraphqlSchema(existingExtendGraphQLSchema(schema))
    ELSE extendGraphqlSchema(schema)

\* the extendGraphqlSchema of the composed config
composedExtendGraphqlSchema(kc, schema) ==
  IF kc.extendGraphqlSchema # "undefined"
    THEN existingExtendGraphQLSchema(extendGraphqlSchema(schema))
    ELSE extendGraphqlSchema(schema)

(***************************************************************************)
(* State machine                                                           *)
(***************************************************************************)
Idle == [op |-> "none"]

\* createAuth(...): the auth config is fixed, nothing is composed yet
Init ==
  /\ keystonePath \in KeystonePaths
  /\ listKey \in {"User", "NoSuchList"}
  /\ identityField \in {"email", "slug"}
  /\ sessionData \in {"undefined", "", "id name"}
  /\ config = [status |-> "none"]
  /\ last = Idle

WithAuthOver(S) ==
  /\ config.status = "none"
  /\ \E kc \in S :
       config' = withAuth(kc, keystonePath, listKey, identityField, sessionData)
  /\ UNCHANGED <<keystonePath, listKey, identityField, sessionData, last>>

WithAuth == WithAuthOver(KeystoneConfigs)

WithAuthServe == WithAuthOver(ServeConfigs)

\* the process is started again with another config
Restart ==
  /\ config.status # "none"
  /\ last = Idle
  /\ config' = [status |-> "none"]
  /\ UNCHANGED <<keystonePath, listKey, identityField, sessionData, last>>

Serving == config.status = "ok" /\ last = Idle

\* the framework calls ui.pageMiddleware for a page request
PageMiddleware ==
  /\ Serving
  /\ config.ui # None
  /\ \E url \in Urls, isValidSession \in BOOLEAN, session \in Sessions,
        callerResult \in CallerResults :
       /\ config.input.ui[1].pageMiddleware = "undefined" => callerResult = Continue
       /\ last' = [ op |-> "pageMiddleware", url |-> url,
                    isValidSession |-> isValidSession, session |-> session,
                    callerResult |-> callerResult,
                    out |-> composedPageMiddleware(config.input, keystonePath, url,
                              isValidSession, session, callerResult),
                    hops |-> 0, via |-> "none" ]
  /\ UNCHANGED <<keystonePath, listKey, identityField, sessionData, config>>

\* the client follows a redirect with an unchanged session
FollowRedirect ==
  /\ config.status = "ok"
  /\ last.op = "pageMiddleware"
  /\ last.out.result.kind = "redirect"
  /\ last.hops < MaxHops
  /\ \E callerResult \in CallerResults :
       /\ config.input.ui[1].pageMiddleware = "undefined" => callerResult = Continue
       /\ last' = [ op |-> "pageMiddleware", url |-> last.out.result.to,
                    isValidSession |-> last.isValidSession,
                    session |-> last.session,
                    callerResult |-> callerResult,
                    out |-> composedPageMiddleware(config.input, keystonePath,
                              last.out.result.to, last.isValidSession,
                              last.session, callerResult),
                    hops |-> last.hops + 1,
                    via |-> IF last.out.own.kind = "redirect"
                              THEN "own" ELSE "caller" ]
  /\ UNCHANGED <<keystonePath, listKey, identityField, sessionData, config>>

\* the framework calls ui.isAccessAllowed
IsAccessAllowed ==
  /\ Serving
  /\ config.ui # None
  /\ \E ctx \in Contexts :
       last' = [ op |-> "isAccessAllowed", ctx |-> ctx,
                 out |-> isAccessAllowed(config.input, ctx) ]
  /\ UNCHANGED <<keystonePath, listKey, identityField, sessionData, config>>

\* the framework calls session.get of the wrapped strategy
SessionGet ==
  /\ Serving
  /\ config.session = "withItemData"
  /\ \E url \in Urls, nextSession \in NextSessions :
       last' = [ op |-> "sessionGet", url |-> url, nextSession |-> nextSession,
                 out |-> withItemDataGet(url, nextSession) ]
  /\ UNCHANGED <<keystonePath, listKey, identityField, sessionData, config>>

\* the framework calls session.get of the caller's own strategy
CallerSessionGet ==
  /\ Serving
  /\ config.session = "callerStrategy"
  /\ \E url \in {<<"/">>, signinPage(keystonePath)},
        r \in {"undefined", "callerSession"} :
       last' = [ op |-> "callerSessionGet", url |-> url,
                 out |-> [result |-> r, consulted |-> FALSE] ]
  /\ UNCHANGED <<keystonePath, listKey, identityField, sessionData, config>>

\* the framework builds the schema with extendGraphqlSchema
ExtendGraphqlSchema ==
  /\ Serving
  /\ \E schema \in Schemas :
       last' = [ op |-> "extendGraphqlSchema", schema |-> schema,
                 out |-> composedExtendGraphqlSchema(config.input, schema) ]
  /\ UNCHANGED <<keystonePath, listKey, identityField, sessionData, config>>

\* the request is answered
Respond ==
  /\ last # Idle
  /\ last' = Idle
  /\ UNCHANGED <<keystonePath, listKey, identityField, sessionData, config>>

Next ==
  \/ WithAuthServe
  \/ Restart
  \/ PageMiddleware
  \/ FollowRedirect
  \/ IsAccessAllowed
  \/ SessionGet
  \/ CallerSessionGet
  \/ ExtendGraphqlSchema
  \/ Respond

Spec == Init /\ [][Next]_vars

\* composition alone, over every caller config
NextCompose == WithAuth \/ Restart

SpecCompose == Init /\ [][NextCompose]_vars

(***************************************************************************)
(* Properties                                                              *)
(***************************************************************************)
IsPage == last.op = "pageMiddleware"
Pathname == urlParsePathname(last.url)
Own == last.out.own

C6_MiddlewareOrder ==
  IsPage =>
    /\ Own.kind = "redirect" =>
         last.out.result = Own /\ ~last.out.callerInvoked
    /\ (Own = Continue /\ config.input.ui[1].pageMiddleware # "undefined") =>
         last.out.callerInvoked /\ last.out.result = last.callerResult
    /\ (Own = Continue /\ config.input.ui[1].pageMiddleware = "undefined") =>
         last.out.result = Continue /\ ~last.out.callerInvoked

C6_Witness ==
  /\ IsPage
  /\ config.input.ui[1].pageMiddleware # "undefined"
  /\ last.callerResult.kind = "redirect"
  /\ Own.kind = "redirect"
  /\ last.out.result = Own

IsAccess == last.op = "isAccessAllowed"

\* the three conditions of the bootstrap carve-out, for the request in last
InitWindow ==
  /\ hasReferer(last.ctx)
  /\ last.ctx.headers[1].referer[1].valid
  /\ newURL(last.ctx.headers[1].referer[1]).pathname = "/init"
  /\ newURL(last.ctx.headers[1].referer[1]).host = requestHost(last.ctx)
  /\ last.ctx.count = 0

CallerOrSession ==
  IF config.input.ui[1].isAccessAllowed # "undefined"
    THEN last.ctx.callerAnswer
    ELSE last.ctx.session # "undefined"

\* C2: ui.isAccessAllowed grants access through the carve-out exactly when
\* the referer's path is /init, the referer's host is the request's host and
\* the sudo count is zero; when one of the three fails, access is granted
\* only if the caller's predicate, or without one a defined session, says so.
C2_InitCarveOut ==
  IsAccess =>
    /\ last.out.accessingInitPage <=> InitWindow
    /\ InitWindow => last.out.kind = "allowed"
    /\ (~InitWindow /\ last.out.kind = "allowed") => CallerOrSession
    /\ (~InitWindow /\ last.out.kind # "throw") =>
         (last.out.kind = "allowed" <=> CallerOrSession)

C2_Witness ==
  /\ IsAccess
  /\ InitWindow
  /\ ~CallerOrSession
  /\ last.out.kind = "allowed"

\* C4: session.get of the wrapped strategy returns no session for a path that
\* contains /api/auth, without asking the identity provider; for any other
\* path it returns the provider's session when there is one and no session
\* otherwise.  The strategy is wrapped only when a session strategy and
\* sessionData are both configured; otherwise it is the caller's, unmodified.
C4_SessionGet ==
  /\ last.op = "sessionGet" =>
       IF includes(urlParsePathname(last.url).str, <<"/", "api/auth">>)
         THEN last.out.result = "undefined" /\ ~last.out.consulted
         ELSE /\ last.out.consulted
              /\ last.out.result =
                   (IF last.nextSession = "nextSession"
                      THEN "nextSession" ELSE "undefined")
  /\ config.status = "ok" =>
       IF config.input.session # "undefined" /\ sessionData \notin {"undefined", ""}
         THEN config.session = "withItemData"
         ELSE config.session = config.input.session

C4_Witness ==
  /\ last.op = "sessionGet"
  /\ includes(urlParsePathname(last.url).str, <<"/", "api/auth">>)
  /\ last.nextSession = "nextSession"
  /\ last.out.result = "undefined"

\* C5: withAuth throws when listKey is not a list of the config, throws when
\* identityField is not a field of that list, and returns a config only for a
\* valid list and field.
C5_Validation ==
  config.status # "none" =>
    /\ listKey \notin DOMAIN config.input.lists =>
         config.status = "throw" /\ config.error = "list"
    /\ (listKey \in DOMAIN config.input.lists
          /\ identityField \notin config.input.lists[listKey]) =>
         config.status = "throw" /\ config.error = "field"
    /\ (listKey \in DOMAIN config.input.lists
          /\ identityField \in config.input.lists[listKey]) =>
         config.status = "ok"

C5_Witness ==
  /\ config.status = "throw"
  /\ config.error = "field"
  /\ listKey \in DOMAIN config.input.lists

IsExtend == last.op = "extendGraphqlSchema"
HasCallerExtension == config.input.extendGraphqlSchema # "undefined"
Addition(name) ==
  CHOOSE e \in {last.out[i] : i \in 1..Len(last.out)} : e.name = name

\* C7 (as stated): with a caller extension, the composed extendGraphqlSchema
\* applies the caller's extension first and this system's to its result, so
\* this system's extension sees the caller's additions and not vice versa.
C7_AsStated ==
  (IsExtend /\ HasCallerExtension) =>
    /\ last.out = extendGraphqlSchema(existingExtendGraphQLSchema(last.schema))
    /\ "caller" \in Addition("auth").saw
    /\ "auth" \notin Addition("caller").saw

\* C7 (amended): with a caller extension, the composed extendGraphqlSchema
\* applies this system's extension first and the caller's to its result, so
\* the caller's extension sees this system's additions and not vice versa;
\* without one, this system's extension is used directly.
C7_AuthFirst ==
  IsExtend =>
    IF HasCallerExtension
      THEN /\ last.out = existingExtendGraphQLSchema(extendGraphqlSchema(last.schema))
           /\ "auth" \in Addition("caller").saw
           /\ "caller" \notin Addition("auth").saw
      ELSE last.out = extendGraphqlSchema(last.schema)

C7_Witness ==
  /\ IsExtend
  /\ HasCallerExtension
  /\ last.out[Len(last.out)].name = "caller"

\* the eight identity-provider routes the documentation lists
ProviderRoutes(kp) ==
  << authApiPrefix(kp) \o <<"csrf">>,
     authApiPrefix(kp) \o <<"signin">>,
     authApiPrefix(kp) \o <<"signin", "/", "auth0">>,
     authApiPrefix(kp) \o <<"callback">>,
     authApiPrefix(kp) \o <<"callback", "/", "auth0">>,
     authApiPrefix(kp) \o <<"session">>,
     authApiPrefix(kp) \o <<"providers">>,
     authApiPrefix(kp) \o <<"signout">> >>

\* C8: for a config with a ui.publicPages list, the composed ui.publicPages
\* is the caller's entries in order followed by csrf, signin,
\* signin/<provider>, callback, callback/<provider>, session, providers and
\* signout under <keystonePath>/api/auth/.
C8_PublicPages ==
  (config.status = "ok" /\ config.input.ui # None
     /\ config.input.ui[1].publicPages # None) =>
    config.ui[1].publicPages =
      Some(config.input.ui[1].publicPages[1] \o ProviderRoutes(keystonePath))

\* C9: every config withAuth returns has ui.enableSessionItem true, whether
\* or not the caller supplied a ui.
C9_EnableSessionItem ==
  config.status = "ok" =>
    config.ui # None /\ config.ui[1].enableSessionItem = "true"


====
